---- MODULE Spec2Model ----
(***************************************************************************)
(* Model of src/app.py: the three analysis modules of the statistics app.  *)
(* Every user interaction re-runs the script top to bottom, so each action *)
(* below is one script run: the widget event, the recomputation of the     *)
(* derived data and, when the analysis button was the event, the analysis. *)
(*                                                                         *)
(* Numbers: observations are kept in tenths (10.2 is 102), p-values in     *)
(* hundredths (0.05 is 5).  The statistics library is external: what it    *)
(* returns is drawn from small sets that straddle the 0.05 threshold.      *)
(***************************************************************************)
EXTENDS Integers, Sequences, FiniteSets, Bags, TLC

VARIABLES
    oneway_df,    \* st.session_state.oneway_df: [columns, data]
    edits,        \* number of editor interactions so far (bounded)
    clean_data,   \* one-way: group name -> numeric values, this script run
    groups,       \* one-way: list(clean_data.keys()), this script run
    shown,        \* one-way: what this script run rendered
    res,          \* one-way: values computed by the analysis of this run
    df_chi,       \* contingency: the edited table, rows of counts per group column
    chi,          \* contingency: what the analysis of this run reported
    twoway_df,    \* st.session_state.twoway_df: [columns, rows]
    tw_edits,     \* two-way: number of cell edits so far (bounded)
    group1_cols,  \* two-way: columns assigned to level 1 of Factor B
    group2_cols,  \* two-way: columns assigned to level 2 of Factor B
    tw            \* two-way: what the analysis of this run reported

vars == <<oneway_df, edits, clean_data, groups, shown, res, df_chi, chi,
          twoway_df, tw_edits, group1_cols, group2_cols, tw>>

onewayVars == <<oneway_df, edits, clean_data, groups, shown, res>>
chiVars == <<df_chi, chi>>
twowayVars == <<twoway_df, tw_edits, group1_cols, group2_cols, tw>>

----------------------------------------------------------------------------
(* Bounds of the model *)
MaxCols == 3      \* columns the add-column button may grow the table to
MaxEdits == 2     \* editor interactions (cell edits, added rows)
MaxChiRows == 3   \* rows the contingency table may grow to
MaxTwoWayCols == 8     \* columns the two-way add-column button may grow the table to
MaxTwoWayEdits == 1    \* cell edits of the two-way table

(* Rows whose cells the modelled user edits *)
EditableRows == {1}

(* Row counts the modelled user cuts the table down to *)
KeepRows == {0, 2}

----------------------------------------------------------------------------
(* Cells of the edited table *)
NoneCell == [kind |-> "None", num |-> 0]
Float(n) == [kind |-> "float", num |-> n]
Count(n) == [kind |-> "int", num |-> n]
Str(parsed, n) == [kind |-> IF parsed THEN "numstr" ELSE "text", num |-> n]

(* What a user types into a cell: the text abc, the text 11.5.  Empty cells
   come with an added column or an added row. *)
CellInputs == {Str(FALSE, 0), Str(TRUE, 115)}

NaN == -1

(* pd.to_numeric(..., errors='coerce') on one cell *)
to_numeric(cell) ==
    CASE cell.kind = "float" -> cell.num
      [] cell.kind = "int" -> cell.num
      [] cell.kind = "numstr" -> cell.num
      [] OTHER -> NaN

(* dropna that also drops a value already kept *)
RECURSIVE dropna_Unique(_)
dropna_Unique(s) ==
    IF s = <<>> THEN <<>>
    ELSE LET rest == dropna_Unique(SubSeq(s, 1, Len(s) - 1))
             x == s[Len(s)]
         IN  IF x = NaN \/ (\E i \in DOMAIN rest : rest[i] = x) THEN rest
             ELSE Append(rest, x)

(* Series.dropna().values *)
RECURSIVE dropna(_)
dropna(s) ==
    IF s = <<>> THEN <<>>
    ELSE IF Head(s) = NaN THEN dropna(Tail(s))
         ELSE <<Head(s)>> \o dropna(Tail(s))

Coerce(col) == [i \in 1..Len(col) |-> to_numeric(col[i])]

valid_vals(df, c) == dropna(Coerce(df.data[c]))

Range(s) == {s[i] : i \in DOMAIN s}

(* Comparisons of floats that may be nan: every comparison with nan is False *)
Gt(p, t) == p # NaN /\ p > t
Lt(p, t) == p # NaN /\ p < t

----------------------------------------------------------------------------
(* Module A: one-factor analysis *)

DefaultOneway ==
    [columns |-> <<"Control", "Treatment">>,
     data |-> [c \in {"Control", "Treatment"} |->
                 IF c = "Control"
                 THEN <<Float(102), Float(115), Float(108), Float(121), Float(113), Float(109)>>
                 ELSE <<Float(135), Float(142), Float(151), Float(148), Float(139), Float(155)>>]]

NumRows(df) == Len(df.data[df.columns[1]])

(* f"Group_{current_cols + 1}" *)
new_col_name(current_cols) ==
    CASE current_cols + 1 = 3 -> "Group_3"
      [] current_cols + 1 = 4 -> "Group_4"
      [] current_cols + 1 = 5 -> "Group_5"
      [] OTHER -> "Group_6"

(* df[new_col_name] = None *)
WithNewColumn(df) ==
    LET name == new_col_name(Len(df.columns))
    IN  [columns |-> Append(df.columns, name),
         data |-> [c \in Range(df.columns) \cup {name} |->
                     IF c = name THEN [i \in 1..NumRows(df) |-> NoneCell]
                     ELSE df.data[c]]]

(* The cleaning loop without the len(valid_vals) > 0 test *)
CleanKeys_KeepEmpty(df, cols) == cols

(* The cleaning loop: the columns, in order, that have a numeric cell *)
RECURSIVE CleanKeys(_, _)
CleanKeys(df, cols) ==
    IF cols = <<>> THEN <<>>
    ELSE IF Len(valid_vals(df, Head(cols))) > 0
         THEN <<Head(cols)>> \o CleanKeys(df, Tail(cols))
         ELSE CleanKeys(df, Tail(cols))

Clean(df) == [c \in Range(CleanKeys(df, df.columns)) |-> valid_vals(df, c)]

(* Values the statistics library may return, in hundredths *)
ShapiroPs == {5, 6}
LevenePs == {5, 6, NaN}
MainPs == {4, 5}
PairPs == {1, 5}

(* Names of the methods; a name is the list of its words *)
TTest == <<"Independent", "T">>
Welch == <<"Welch", "T">>
MannWhitney == <<"Mann-Whitney", "U">>
OneWayAnova == <<"One-Way", "ANOVA">>
KruskalWallis == <<"Kruskal-Wallis">>

(* needle in method_name *)
Contains(name, needle) == \E i \in DOMAIN name : name[i] = needle

(* group_vals = [clean_data[g] for g in groups] *)
GroupVals(cd, gs) == [i \in 1..Len(gs) |-> cd[gs[i]]]

(* The groups stats.shapiro is called on *)
Tested(cd, gs) == {g \in Range(gs) : Len(cd[g]) >= 3}

(* The normality loop with a skipped group counted as not normal *)
RECURSIVE NormalityLoop_SkipFails(_, _, _, _)
NormalityLoop_SkipFails(all_normal, gs, cd, p) ==
    IF gs = <<>> THEN all_normal
    ELSE LET g == Head(gs)
         IN  IF Len(cd[g]) >= 3
             THEN NormalityLoop_SkipFails(IF ~Gt(p[g], 5) THEN FALSE ELSE all_normal,
                                          Tail(gs), cd, p)
             ELSE NormalityLoop_SkipFails(FALSE, Tail(gs), cd, p)

(* The normality loop over clean_data.items(), all_normal starting True *)
RECURSIVE NormalityLoop(_, _, _, _)
NormalityLoop(all_normal, gs, cd, p) ==
    IF gs = <<>> THEN all_normal
    ELSE LET g == Head(gs)
             is_norm == Gt(p[g], 5)
         IN  IF Len(cd[g]) >= 3
             THEN NormalityLoop(IF ~is_norm THEN FALSE ELSE all_normal, Tail(gs), cd, p)
             ELSE NormalityLoop(all_normal, Tail(gs), cd, p)

(* is_homo: Levene's p > 0.05 when there are at least two groups *)
IsHomo(group_vals, p_lev) ==
    IF Len(group_vals) >= 2 THEN Gt(p_lev, 5) ELSE FALSE

(* The selection with Welch chosen on the homogeneity flag alone *)
SelectMethod_WelchAnyNormality(n, all_normal, is_homo) ==
    IF n = 2
    THEN IF all_normal /\ is_homo THEN <<"Independent", "T">>
         ELSE IF ~is_homo THEN <<"Welch", "T">>
         ELSE <<"Mann-Whitney", "U">>
    ELSE IF all_normal /\ is_homo THEN <<"One-Way", "ANOVA">>
         ELSE <<"Kruskal-Wallis">>

(* The selection with ANOVA chosen when either flag holds *)
SelectMethod_AnovaEither(n, all_normal, is_homo) ==
    IF n = 2
    THEN IF all_normal /\ is_homo THEN <<"Independent", "T">>
         ELSE IF all_normal /\ ~is_homo THEN <<"Welch", "T">>
         ELSE <<"Mann-Whitney", "U">>
    ELSE IF all_normal \/ is_homo THEN <<"One-Way", "ANOVA">>
         ELSE <<"Kruskal-Wallis">>

(* The selection of the method from the group count and the two flags *)
SelectMethod(n, all_normal, is_homo) ==
    IF n = 2
    THEN IF all_normal /\ is_homo THEN TTest
         ELSE IF all_normal /\ ~is_homo THEN Welch
         ELSE MannWhitney
    ELSE IF all_normal /\ is_homo THEN OneWayAnova
         ELSE KruskalWallis

(* The post-hoc gate with p_val <= 0.05 *)
PostHocRuns_Inclusive(p_val, n) == p_val # NaN /\ p_val <= 5 /\ n > 2

(* if p_val < 0.05 and len(groups) > 2 *)
PostHocRuns(p_val, n) == Lt(p_val, 5) /\ n > 2

(* Which post-hoc procedure the block runs *)
PostHocKind(method_name) ==
    IF Contains(method_name, "ANOVA") THEN "tukey" ELSE "bonferroni"

(* The two nested loops that build the long (Group, Value) records *)
RECURSIVE LongData(_, _)
LongData(gs, cd) ==
    IF gs = <<>> THEN <<>>
    ELSE [i \in 1..Len(cd[Head(gs)]) |-> [Group |-> Head(gs), Value |-> cd[Head(gs)][i]]]
         \o LongData(Tail(gs), cd)

(* combinations_with_replacement in place of combinations *)
RECURSIVE Combinations2_WithSelf(_)
Combinations2_WithSelf(gs) ==
    IF Len(gs) < 1 THEN <<>>
    ELSE [j \in 1..Len(gs) |-> <<gs[1], gs[j]>>] \o Combinations2_WithSelf(Tail(gs))

(* list(itertools.combinations(groups, 2)) *)
RECURSIVE Combinations2(_)
Combinations2(gs) ==
    IF Len(gs) < 2 THEN <<>>
    ELSE [j \in 1..(Len(gs) - 1) |-> <<gs[1], gs[j + 1]>>] \o Combinations2(Tail(gs))

(* adj = 0.05 / len(pairs), as a fraction *)
Adj(pairs) == [num |-> 5, den |-> 100 * Len(pairs)]

(* p_pair < adj, p_pair in hundredths *)
BelowAdj(p_pair, adj) == p_pair * adj.den < adj.num * 100

(* The pairs the Bonferroni loop reports as significant *)
Significant(pairs, p_pair, adj) ==
    SelectSeq([i \in 1..Len(pairs) |-> [pair |-> pairs[i], p |-> p_pair[i]]],
              LAMBDA e : BelowAdj(e.p, adj))

(* Pairwise p-values the library may return: none, one or all of them small *)
PairOutcomes(n) ==
    {f \in [1..n -> PairPs] : Cardinality({i \in 1..n : f[i] = 1}) \in {0, 1, n}}

NoRes == [ran |-> FALSE]

NoAdj == [num |-> 0, den |-> 1]

(* Everything the analysis computes from clean_data and the library's answers *)
Analysis(cd, gs, shapiro_p, p_lev, p_main, p_pair) ==
    LET group_vals == GroupVals(cd, gs)
        all_normal == NormalityLoop(TRUE, gs, cd, shapiro_p)
        is_homo == IsHomo(group_vals, p_lev)
        method_name == SelectMethod(Len(gs), all_normal, is_homo)
        runs == PostHocRuns(p_main, Len(gs))
        kind == IF runs THEN PostHocKind(method_name) ELSE "none"
        pairs == IF kind = "bonferroni" THEN Combinations2(gs) ELSE <<>>
        adj == IF kind = "bonferroni" THEN Adj(pairs) ELSE NoAdj
    IN  [ran |-> TRUE,
         group_vals |-> group_vals,
         shapiro_p |-> shapiro_p,
         all_normal |-> all_normal,
         p_lev |-> p_lev,
         is_homo |-> is_homo,
         method_name |-> method_name,
         p_val |-> p_main,
         posthoc |-> kind,
         ph_data |-> IF runs THEN LongData(gs, cd) ELSE <<>>,
         pairs |-> pairs,
         adj |-> adj,
         p_pair |-> IF kind = "bonferroni" THEN p_pair ELSE <<>>,
         sig |-> IF kind = "bonferroni" THEN Significant(pairs, p_pair, adj) ELSE <<>>,
         plot_data |-> LongData(gs, cd)]

(* The script run below the editor when the analysis button is not the event *)
Render(df) ==
    /\ oneway_df' = df
    /\ res' = NoRes
    /\ IF NumRows(df) = 0
       THEN /\ clean_data' = <<>>
            /\ groups' = <<>>
            /\ shown' = "nothing"
       ELSE /\ clean_data' = Clean(df)
            /\ groups' = CleanKeys(df, df.columns)
            /\ shown' = IF Len(CleanKeys(df, df.columns)) < 2 THEN "warning" ELSE "button"

InitOneway ==
    /\ oneway_df = DefaultOneway
    /\ edits = 0
    /\ clean_data = Clean(DefaultOneway)
    /\ groups = CleanKeys(DefaultOneway, DefaultOneway.columns)
    /\ shown = "button"
    /\ res = NoRes

AddColumn ==
    /\ UNCHANGED <<chiVars, twowayVars>>
    /\ Len(oneway_df.columns) < MaxCols
    /\ Render(WithNewColumn(oneway_df))
    /\ UNCHANGED edits

EditCell ==
    /\ UNCHANGED <<chiVars, twowayVars>>
    /\ edits < MaxEdits
    /\ \E c \in Range(oneway_df.columns), r \in EditableRows, v \in CellInputs :
          /\ r <= NumRows(oneway_df)
          /\ oneway_df.data[c][r] # v
          /\ Render([oneway_df EXCEPT !.data[c][r] = v])
    /\ edits' = edits + 1

AddRow ==
    /\ UNCHANGED <<chiVars, twowayVars>>
    /\ edits < MaxEdits
    /\ Render([oneway_df EXCEPT !.data =
                  [c \in DOMAIN oneway_df.data |-> Append(oneway_df.data[c], NoneCell)]])
    /\ edits' = edits + 1

DeleteRows ==
    /\ UNCHANGED <<chiVars, twowayVars>>
    /\ \E n \in KeepRows :
          /\ n < NumRows(oneway_df)
          /\ Render([oneway_df EXCEPT !.data =
                        [c \in DOMAIN oneway_df.data |-> SubSeq(oneway_df.data[c], 1, n)]])
    /\ UNCHANGED edits

(* The click on the analysis button, offered when two groups are usable *)
Analyze ==
    /\ UNCHANGED <<chiVars, twowayVars>>
    /\ shown \in {"button", "result"}
    /\ \E shapiro_p \in [Tested(clean_data, groups) -> ShapiroPs],
          p_lev \in LevenePs, p_main \in MainPs :
          LET n == Len(groups)
              bonf == PostHocRuns(p_main, n)
                      /\ PostHocKind(SelectMethod(n,
                              NormalityLoop(TRUE, groups, clean_data, shapiro_p),
                              IsHomo(GroupVals(clean_data, groups), p_lev))) = "bonferroni"
              m == IF bonf THEN Len(Combinations2(groups)) ELSE 0
          IN  \E p_pair \in PairOutcomes(m) :
                 res' = Analysis(clean_data, groups, shapiro_p, p_lev, p_main, p_pair)
    /\ shown' = "result"
    /\ UNCHANGED <<oneway_df, edits, clean_data, groups>>

NextOneway == AddColumn \/ EditCell \/ AddRow \/ DeleteRows \/ Analyze

----------------------------------------------------------------------------
(* Module C: contingency-table analysis.  Only the count columns are kept:
   the first column (the row labels) is not read by the analysis. *)

default_chi ==
    <<[Group_A |-> Count(30), Group_B |-> Count(15)],
      [Group_A |-> Count(20), Group_B |-> Count(35)]>>

data_cols == <<"Group_A", "Group_B">>

(* What a user types into a count cell: empty, the text abc, the count 8 *)
ChiInputs == {NoneCell, Str(FALSE, 0), Count(8)}

fillna0(x) == IF x = NaN THEN 0 ELSE x

(* df_chi[data_cols].apply(pd.to_numeric, errors='coerce').fillna(0).values *)
Observed(df) ==
    [i \in 1..Len(df) |-> [j \in 1..Len(data_cols) |-> fillna0(to_numeric(df[i][data_cols[j]]))]]

RECURSIVE SumSeq(_)
SumSeq(s) == IF s = <<>> THEN 0 ELSE Head(s) + SumSeq(Tail(s))

RowTotal(obs, i) == SumSeq(obs[i])
ColTotal(obs, j) == SumSeq([i \in 1..Len(obs) |-> obs[i][j]])
GrandTotal(obs) == SumSeq([i \in 1..Len(obs) |-> RowTotal(obs, i)])
Shape(obs) == <<Len(obs), Len(data_cols)>>

(* Expected frequencies row_total * col_total / grand_total, kept as the
   numerators over the common denominator grand_total *)
ExpectedNum(obs) ==
    [i \in 1..Len(obs) |-> [j \in 1..Len(data_cols) |-> RowTotal(obs, i) * ColTotal(obs, j)]]

(* stats.chi2_contingency: it raises ValueError on an empty table and on a
   table with a zero expected frequency.  On an all-zero table the expected
   frequencies are 0/0: the call then either raises or returns nan. *)
chi2_contingency(obs) ==
    LET ex == ExpectedNum(obs)
        den == GrandTotal(obs)
        zero == \E i \in 1..Len(obs), j \in 1..Len(data_cols) : ex[i][j] = 0
    IN  IF Len(obs) = 0 THEN {[raised |-> TRUE, nan |-> FALSE, ex |-> ex, den |-> den]}
        ELSE IF den = 0
        THEN {[raised |-> TRUE, nan |-> FALSE, ex |-> ex, den |-> den],
              [raised |-> FALSE, nan |-> TRUE, ex |-> ex, den |-> den]}
        ELSE {[raised |-> zero, nan |-> FALSE, ex |-> ex, den |-> den]}

(* min_ex < 5 with min_ex = ex.min(); False when the frequencies are nan *)
MinExBelow5(r) ==
    /\ ~r.nan
    /\ \E i \in DOMAIN r.ex : \E j \in DOMAIN r.ex[i] : r.ex[i][j] < 5 * r.den

Pearson == <<"Pearson", "chi-square">>
Fisher == <<"Fisher", "exact">>

(* The choice with both conditions required *)
NeedsFisher_Both(shape, total_n, min_ex_lt5) ==
    shape = <<2, 2>> /\ (total_n < 40 /\ min_ex_lt5)

(* The choice between the chi-square result and Fisher's exact test *)
NeedsFisher(shape, total_n, min_ex_lt5) ==
    shape = <<2, 2>> /\ (total_n < 40 \/ min_ex_lt5)

(* The except branch: a fixed hint followed by the text of the exception *)
ChiErrorMessage == <<"ensure_columns_are_numeric", "exception_text">>

NoChi == [ran |-> FALSE]

(* The body of the try block and its except branch *)
ChiAnalysis(df, r, p_chi2, p_fisher) ==
    LET observed == Observed(df)
        total_n == GrandTotal(observed)
        min_ex_lt5 == MinExBelow5(r)
        fisher == NeedsFisher(Shape(observed), total_n, min_ex_lt5)
        p == IF fisher THEN p_fisher ELSE IF r.nan THEN NaN ELSE p_chi2
    IN  IF r.raised
        THEN [ran |-> TRUE, outcome |-> "error", message |-> ChiErrorMessage,
              observed |-> observed]
        ELSE [ran |-> TRUE, outcome |-> "result", message |-> <<>>,
              observed |-> observed,
              method |-> IF fisher THEN Fisher ELSE Pearson,
              warning |-> (~fisher /\ min_ex_lt5),
              p |-> p,
              conclusion |-> IF Lt(p, 5) THEN "associated" ELSE "independent"]

InitChi ==
    /\ df_chi = default_chi
    /\ chi = NoChi

ChiEditCell ==
    /\ UNCHANGED <<onewayVars, twowayVars>>
    /\ \E i \in 1..Len(df_chi), j \in 1..Len(data_cols), v \in ChiInputs :
          /\ df_chi[i][data_cols[j]] # v
          /\ df_chi' = [df_chi EXCEPT ![i][data_cols[j]] = v]
    /\ chi' = NoChi

ChiAddRow ==
    /\ UNCHANGED <<onewayVars, twowayVars>>
    /\ Len(df_chi) < MaxChiRows
    /\ df_chi' = Append(df_chi, [Group_A |-> NoneCell, Group_B |-> NoneCell])
    /\ chi' = NoChi

ChiDeleteRow ==
    /\ UNCHANGED <<onewayVars, twowayVars>>
    /\ \E i \in 1..Len(df_chi) :
          df_chi' = SubSeq(df_chi, 1, i - 1) \o SubSeq(df_chi, i + 1, Len(df_chi))
    /\ chi' = NoChi

ChiAnalyze ==
    /\ UNCHANGED <<onewayVars, twowayVars>>
    /\ \E r \in chi2_contingency(Observed(df_chi)), p_chi2 \in MainPs, p_fisher \in MainPs :
          chi' = ChiAnalysis(df_chi, r, p_chi2, p_fisher)
    /\ UNCHANGED df_chi

NextChi == ChiEditCell \/ ChiAddRow \/ ChiDeleteRow \/ ChiAnalyze

----------------------------------------------------------------------------
(* Module B: two-factor analysis of variance, matrix input *)

(* A row label; str(row_label) is the level of Factor A *)
Label(k) == [kind |-> "text", num |-> k]

DefaultTwoway ==
    [columns |-> <<"Condition", "A1", "A2", "A3", "B1", "B2", "B3">>,
     rows |-> <<[c \in {"Condition", "A1", "A2", "A3", "B1", "B2", "B3"} |->
                   CASE c = "Condition" -> Label(1)
                     [] c = "A1" -> Float(241) [] c = "A2" -> Float(292) [] c = "A3" -> Float(246)
                     [] c = "B1" -> Float(200) [] c = "B2" -> Float(219) [] c = "B3" -> Float(176)],
                [c \in {"Condition", "A1", "A2", "A3", "B1", "B2", "B3"} |->
                   CASE c = "Condition" -> Label(2)
                     [] c = "A1" -> Float(176) [] c = "A2" -> Float(188) [] c = "A3" -> Float(232)
                     [] c = "B1" -> Float(148) [] c = "B2" -> Float(103) [] c = "B3" -> Float(113)]>>]

(* f"NewCol_{current_cols}" *)
tw_new_col_name(current_cols) ==
    CASE current_cols = 7 -> "NewCol_7"
      [] current_cols = 8 -> "NewCol_8"
      [] OTHER -> "NewCol_9"

TwWithNewColumn(df) ==
    LET name == tw_new_col_name(Len(df.columns))
    IN  [columns |-> Append(df.columns, name),
         rows |-> [i \in 1..Len(df.rows) |->
                     [c \in Range(df.columns) \cup {name} |->
                        IF c = name THEN NoneCell ELSE df.rows[i][c]]]]

(* data_cols = all_cols[1:] *)
tw_data_cols(df) == Tail(df.columns)

(* default_g1 = data_cols[:len(data_cols)//2] *)
default_g1(df) == SubSeq(tw_data_cols(df), 1, Len(tw_data_cols(df)) \div 2)

(* default_g2 = [c for c in data_cols if c not in default_g1] *)
default_g2(df) == SelectSeq(tw_data_cols(df), LAMBDA c : c \notin Range(default_g1(df)))

(* Selections the modelled user makes in a multiselect *)
Choices(default) == {default, SubSeq(default, 1, 1), <<>>}

(* What a user types into a data cell of the matrix *)
TwInputs == {NoneCell, Str(FALSE, 0)}

(* The records one row adds for the columns of one level of Factor B *)
RECURSIVE RowRecords(_, _, _, _)
RowRecords(row, first_col, cols, level) ==
    IF cols = <<>> THEN <<>>
    ELSE LET val == to_numeric(row[Head(cols)])
             rest == RowRecords(row, first_col, Tail(cols), level)
         IN  IF val # NaN
             THEN <<[FA |-> row[first_col], FB |-> level, Value |-> val]>> \o rest
             ELSE rest

(* long_data: row by row, the level-1 columns and then the level-2 columns *)
RECURSIVE TwLongData(_, _, _, _)
TwLongData(rows, first_col, g1, g2) ==
    IF rows = <<>> THEN <<>>
    ELSE RowRecords(Head(rows), first_col, g1, "Level_1")
         \o RowRecords(Head(rows), first_col, g2, "Level_2")
         \o TwLongData(Tail(rows), first_col, g1, g2)

(* df_long['Combo']: the (Factor A level, Factor B level) cells that have data *)
Combos(long) == {<<long[i].FA, long[i].FB>> : i \in DOMAIN long}

(* Residual degrees of freedom of the model with interaction *)
ResidualDf(long) == Len(long) - Cardinality(Combos(long))

Degenerate(long) ==
    \/ Cardinality({long[i].FA : i \in DOMAIN long}) < 2
    \/ Cardinality({long[i].FB : i \in DOMAIN long}) < 2
    \/ ResidualDf(long) <= 0

(* ols(...).fit() and anova_lm(model, typ=2): the three p-values, or an
   exception.  Without records the formula cannot be evaluated; on a design
   with a single level or no residual degrees of freedom the library either
   raises or returns nan. *)
AnovaOutcomes(long) ==
    IF long = <<>> THEN {[raised |-> TRUE]}
    ELSE IF Degenerate(long)
    THEN {[raised |-> TRUE],
          [raised |-> FALSE, p_a |-> NaN, p_b |-> NaN, p_int |-> NaN]}
    ELSE {[raised |-> FALSE, p_a |-> a, p_b |-> b, p_int |-> i] :
             a \in MainPs, b \in MainPs, i \in MainPs}

(* pairwise_tukeyhsd on the combinations: it returns, or raises on a design
   that leaves it no degrees of freedom *)
TukeyOutcomes(long) == IF Degenerate(long) THEN {"ok", "raised"} ELSE {"ok"}

(* The post-hoc section gated on a significant effect *)
TukeyRuns_WhenSignificant(p_a, p_b, p_int) == Lt(p_int, 5) \/ Lt(p_a, 5) \/ Lt(p_b, 5)

(* The post-hoc section follows the ANOVA table with no test of its p-values *)
TukeyRuns(p_a, p_b, p_int) == TRUE

(* The except branch: a fixed hint followed by the text of the exception *)
TwErrorMessage == <<"check_for_non_numeric_input", "exception_text">>

NoTw == [ran |-> FALSE]

(* The analysis button of the two-way module *)
TwAnalysis(df, g1, g2, a, t) ==
    LET long == TwLongData(df.rows, df.columns[1], g1, g2)
        runs == ~a.raised /\ TukeyRuns(a.p_a, a.p_b, a.p_int)
        failed == a.raised \/ (runs /\ t = "raised")
    IN  IF g1 = <<>> \/ g2 = <<>>
        THEN [ran |-> TRUE, outcome |-> "stopped", message |-> <<"assign_a_column_to_each_level">>,
              long_data |-> <<>>, anova |-> FALSE, tukey |-> FALSE]
        ELSE IF a.raised
        THEN [ran |-> TRUE, outcome |-> "error", message |-> TwErrorMessage,
              long_data |-> long, anova |-> FALSE, tukey |-> FALSE]
        ELSE [ran |-> TRUE,
              outcome |-> IF failed THEN "error" ELSE "result",
              message |-> IF failed THEN TwErrorMessage ELSE <<>>,
              long_data |-> long, anova |-> TRUE, tukey |-> runs,
              p_a |-> a.p_a, p_b |-> a.p_b, p_int |-> a.p_int,
              interaction |-> Lt(a.p_int, 5)]

InitTwoway ==
    /\ twoway_df = DefaultTwoway
    /\ tw_edits = 0
    /\ group1_cols = default_g1(DefaultTwoway)
    /\ group2_cols = default_g2(DefaultTwoway)
    /\ tw = NoTw

(* The options of both multiselects change, so both return to their defaults *)
TwAddColumn ==
    /\ UNCHANGED <<onewayVars, chiVars>>
    /\ Len(twoway_df.columns) < MaxTwoWayCols
    /\ twoway_df' = TwWithNewColumn(twoway_df)
    /\ group1_cols' = default_g1(twoway_df')
    /\ group2_cols' = default_g2(twoway_df')
    /\ tw' = NoTw
    /\ UNCHANGED tw_edits

TwEditCell ==
    /\ UNCHANGED <<onewayVars, chiVars>>
    /\ tw_edits < MaxTwoWayEdits
    /\ \E i \in 1..Len(twoway_df.rows), c \in Range(tw_data_cols(twoway_df)), v \in TwInputs :
          /\ twoway_df.rows[i][c] # v
          /\ twoway_df' = [twoway_df EXCEPT !.rows[i][c] = v]
    /\ tw_edits' = tw_edits + 1
    /\ tw' = NoTw
    /\ UNCHANGED <<group1_cols, group2_cols>>

TwDeleteRow ==
    /\ UNCHANGED <<onewayVars, chiVars>>
    /\ \E i \in 1..Len(twoway_df.rows) :
          twoway_df' = [twoway_df EXCEPT !.rows =
                           SubSeq(twoway_df.rows, 1, i - 1)
                           \o SubSeq(twoway_df.rows, i + 1, Len(twoway_df.rows))]
    /\ tw' = NoTw
    /\ UNCHANGED <<tw_edits, group1_cols, group2_cols>>

TwSelect ==
    /\ UNCHANGED <<onewayVars, chiVars>>
    /\ \E g1 \in Choices(default_g1(twoway_df)), g2 \in Choices(default_g2(twoway_df)) :
          /\ <<g1, g2>> # <<group1_cols, group2_cols>>
          /\ group1_cols' = g1
          /\ group2_cols' = g2
    /\ tw' = NoTw
    /\ UNCHANGED <<twoway_df, tw_edits>>

TwAnalyze ==
    /\ UNCHANGED <<onewayVars, chiVars>>
    /\ LET long == TwLongData(twoway_df.rows, twoway_df.columns[1], group1_cols, group2_cols)
       IN  \E a \in AnovaOutcomes(long), t \in TukeyOutcomes(long) :
              tw' = TwAnalysis(twoway_df, group1_cols, group2_cols, a, t)
    /\ UNCHANGED <<twoway_df, tw_edits, group1_cols, group2_cols>>

NextTwoway == TwAddColumn \/ TwEditCell \/ TwDeleteRow \/ TwSelect \/ TwAnalyze

----------------------------------------------------------------------------
(* The specifications: one per analysis mode of the sidebar *)

Init == InitOneway /\ InitChi /\ InitTwoway

Next == NextOneway

Spec == Init /\ [][Next]_vars

SpecContingency == Init /\ [][NextChi]_vars

SpecTwoWay == Init /\ [][NextTwoway]_vars

----------------------------------------------------------------------------
(* Properties of the one-factor analysis *)

SeqToBag(s) == [x \in Range(s) |-> Cardinality({i \in DOMAIN s : s[i] = x})]

IsNumericCell(cell) == cell.kind \in {"float", "numstr"}

(* The multiset of the numeric cells of one column of the edited table *)
NumericCells(col) ==
    LET idx == {i \in DOMAIN col : IsNumericCell(col[i])}
    IN  [v \in {col[i].num : i \in idx} |-> Cardinality({i \in idx : col[i].num = v})]

(* The multiset of the values the long records attribute to group c *)
ValuesOf(long, c) ==
    LET idx == {i \in DOMAIN long : long[i].Group = c}
    IN  [v \in {long[i].Value : i \in idx} |-> Cardinality({i \in idx : long[i].Value = v})]

ColumnOrders(s) ==
    {q \in [1..Len(s) -> Range(s)] : \A i, j \in 1..Len(s) : i # j => q[i] # q[j]}

(* C1: with exactly two usable groups the method is decided by the two flags:
   normal and homogeneous gives the equal-variance t-test, normal and not
   homogeneous gives Welch's t-test, not normal gives Mann-Whitney U whatever
   the homogeneity flag; no other method is chosen. *)
C1_TwoGroupSelection ==
    (res.ran /\ Len(groups) = 2) =>
        /\ (res.all_normal /\ res.is_homo) => res.method_name = TTest
        /\ (res.all_normal /\ ~res.is_homo) => res.method_name = Welch
        /\ (~res.all_normal) => res.method_name = MannWhitney
        /\ res.method_name \in {TTest, Welch, MannWhitney}

C1_Witness ==
    /\ res.ran /\ Len(groups) = 2
    /\ ~res.all_normal /\ res.is_homo
    /\ res.method_name = MannWhitney

(* C2: with three or more usable groups the method is one-way ANOVA exactly
   when all_normal and homogeneous both hold, and Kruskal-Wallis otherwise. *)
C2_KGroupSelection ==
    (res.ran /\ Len(groups) >= 3) =>
        /\ (res.method_name = OneWayAnova) <=> (res.all_normal /\ res.is_homo)
        /\ res.method_name \in {OneWayAnova, KruskalWallis}

C2_Witness ==
    /\ res.ran /\ Len(groups) >= 3
    /\ res.all_normal /\ ~res.is_homo
    /\ res.method_name = KruskalWallis

(* C4: the post-hoc runs only if the overall p-value is below 0.05 and there
   are more than two groups; when it runs it is Tukey HSD exactly when ANOVA
   was the chosen method and the Bonferroni pairwise Mann-Whitney exactly when
   Kruskal-Wallis was. *)
C4_PostHocGate ==
    res.ran =>
        /\ res.posthoc # "none" => (res.p_val # NaN /\ res.p_val < 5 /\ Len(groups) > 2)
        /\ res.posthoc = "tukey" <=> (res.posthoc # "none" /\ res.method_name = OneWayAnova)
        /\ res.posthoc = "bonferroni" <=> (res.posthoc # "none" /\ res.method_name = KruskalWallis)

C4_Witness ==
    /\ res.ran /\ res.posthoc = "tukey"
    /\ res.method_name = OneWayAnova /\ Len(groups) = 3

(* C5: the rank-based post-hoc on k groups tests each unordered pair of
   distinct groups exactly once, k*(k-1)/2 comparisons in all, and compares
   every pair's p-value with 0.05 divided by that count. *)
C5_PairCount ==
    (res.ran /\ res.posthoc = "bonferroni") =>
        LET k == Len(groups)
            n == Len(res.pairs)
        IN  /\ 2 * n = k * (k - 1)
            /\ Len(res.p_pair) = n
            /\ \A i \in 1..n : res.pairs[i][1] # res.pairs[i][2]
            /\ \A a, b \in Range(groups) :
                  a # b => Cardinality({i \in 1..n : {res.pairs[i][1], res.pairs[i][2]} = {a, b}}) = 1
            /\ res.adj.num * 100 * n = 5 * res.adj.den
            /\ \A i \in 1..n :
                  (res.p_pair[i] * n < 5) <=>
                      (\E j \in DOMAIN res.sig : res.sig[j].pair = res.pairs[i])

C5_Witness ==
    /\ res.ran /\ res.posthoc = "bonferroni"
    /\ Len(groups) = 3 /\ Len(res.pairs) = 3 /\ Len(res.sig) = 1

C8_Preserved(long) ==
    /\ \A c \in Range(oneway_df.columns) :
          /\ ValuesOf(long, c) = NumericCells(oneway_df.data[c])
          /\ c \in Range(groups) => SeqToBag(clean_data[c]) = NumericCells(oneway_df.data[c])
          /\ c \notin Range(groups) => NumericCells(oneway_df.data[c]) = <<>>
    /\ \A i \in DOMAIN long : long[i].Group \in Range(oneway_df.columns)

(* The records built from the same table with its columns in another order *)
C8_OrderFree(long) ==
    \A q \in ColumnOrders(oneway_df.columns) :
        LET df == [oneway_df EXCEPT !.columns = q]
            other == LongData(CleanKeys(df, q), clean_data)
        IN  Clean(df) = clean_data /\ Range(other) = Range(long) /\ Len(other) = Len(long)

(* C8: the per-group samples and the long (group, value) records hold, for
   every column, exactly the multiset of that column's numeric cells; nothing
   is attributed to another group, and a permutation of the columns yields the
   same records. *)
C8_ReshapePreserves ==
    res.ran =>
        /\ C8_Preserved(res.plot_data)
        /\ C8_OrderFree(res.plot_data)
        /\ res.posthoc # "none" => res.ph_data = res.plot_data

C8_Witness ==
    /\ res.ran
    /\ \E c \in Range(oneway_df.columns) :
          \E v \in DOMAIN NumericCells(oneway_df.data[c]) : NumericCells(oneway_df.data[c])[v] = 2
    /\ \E c \in Range(oneway_df.columns) :
          \E i \in DOMAIN oneway_df.data[c] : oneway_df.data[c][i].kind = "text"

(* C9: a group with fewer than 3 observations is not tested and never makes
   all_normal false; all_normal is false exactly when a group with at least 3
   observations has p <= 0.05; when every group has fewer than 3 observations
   all_normal is true and a parametric branch is taken. *)
C9_NormalitySkip ==
    res.ran =>
        /\ DOMAIN res.shapiro_p = {g \in Range(groups) : Len(clean_data[g]) >= 3}
        /\ (~res.all_normal) <=>
              (\E g \in Range(groups) : Len(clean_data[g]) >= 3 /\ res.shapiro_p[g] <= 5)
        /\ (\A g \in Range(groups) : Len(clean_data[g]) < 3) =>
              /\ res.all_normal
              /\ Len(groups) = 2 => res.method_name \in {TTest, Welch}
              /\ (Len(groups) >= 3 /\ res.is_homo) => res.method_name = OneWayAnova

C9_Witness ==
    /\ res.ran /\ Len(groups) = 3
    /\ \A g \in Range(groups) : Len(clean_data[g]) < 3
    /\ res.method_name = OneWayAnova

(* The columns of the table that have a numeric cell, in column order *)
UsableColumns ==
    SelectSeq(oneway_df.columns,
              LAMBDA c : \E i \in DOMAIN oneway_df.data[c] : IsNumericCell(oneway_df.data[c][i]))

C10_GroupsUsable ==
    res.ran =>
        /\ Len(res.group_vals) >= 2
        /\ \A i \in DOMAIN res.group_vals : Len(res.group_vals[i]) >= 1
        /\ groups = UsableColumns
        /\ Len(res.group_vals) = Len(UsableColumns)
        /\ \A i \in DOMAIN res.group_vals :
              SeqToBag(res.group_vals[i]) = NumericCells(oneway_df.data[UsableColumns[i]])
        /\ res.method_name = SelectMethod(Len(UsableColumns), res.all_normal, res.is_homo)

C10_AddColumnNeutral ==
    (Len(oneway_df'.columns) = Len(oneway_df.columns) + 1) =>
        (groups' = groups /\ clean_data' = clean_data)

(* C10: whatever edits and add-column clicks came before, the groups the
   analysis uses are the columns with a numeric cell, each with at least one
   observation and at least two of them; a column with no numeric cell is not
   a group and adding one changes neither the groups nor the method; groups
   with 1 or 2 observations stay in. *)
C10_UsableGroupsOnly == [](C10_GroupsUsable) /\ [][C10_AddColumnNeutral]_vars

C10_Witness ==
    /\ res.ran
    /\ Len(oneway_df.columns) > Len(groups)
    /\ \E g \in Range(groups) : Len(clean_data[g]) \in {1, 2}

----------------------------------------------------------------------------
(* Properties of the contingency and two-factor analyses *)

(* The table has a row or a column whose total is zero, or no row at all *)
ZeroMargin(obs) ==
    \/ Len(obs) = 0
    \/ \E i \in 1..Len(obs) : RowTotal(obs, i) = 0
    \/ \E j \in 1..Len(data_cols) : ColTotal(obs, j) = 0

(* Some expected count row_total * col_total / grand_total is below 5 *)
ExpectedBelow5(obs) ==
    /\ GrandTotal(obs) > 0
    /\ \E i \in 1..Len(obs), j \in 1..Len(data_cols) :
          RowTotal(obs, i) * ColTotal(obs, j) < 5 * GrandTotal(obs)

(* C3: Fisher's exact test is the reported method exactly when the table is
   2x2 and the grand total is below 40 or an expected count is below 5; every
   other result is Pearson chi-square, with a warning beside the chi-square
   result when the table is not 2x2 and an expected count is below 5. *)
C3_FisherSelection ==
    (chi.ran /\ chi.outcome = "result") =>
        LET obs == Observed(df_chi)
            two == Len(obs) = 2 /\ Len(data_cols) = 2
        IN  /\ (chi.method = Fisher) <=> (two /\ (GrandTotal(obs) < 40 \/ ExpectedBelow5(obs)))
            /\ chi.method \in {Fisher, Pearson}
            /\ (~two /\ ExpectedBelow5(obs)) => (chi.warning /\ chi.method = Pearson)

C3_Witness ==
    /\ chi.ran /\ chi.outcome = "result"
    /\ chi.method = Fisher
    /\ GrandTotal(Observed(df_chi)) >= 40

(* C6: degenerate inputs (fewer than 2 usable groups, a contingency table
   with a zero row or column total, a two-factor model with zero residual
   degrees of freedom) end in a descriptive insufficient-data condition: no
   test result is reported and the library's error text is not the outcome. *)
C6_DegenerateInsufficientData ==
    /\ res.ran => Len(groups) >= 2
    /\ (chi.ran /\ ZeroMargin(chi.observed)) =>
          (chi.outcome # "result" /\ ~Contains(chi.message, "exception_text"))
    /\ (tw.ran /\ tw.outcome # "stopped" /\ tw.long_data # <<>> /\ ResidualDf(tw.long_data) = 0) =>
          (tw.outcome # "result" /\ ~Contains(tw.message, "exception_text"))

(* C7 as claimed: the two-factor Tukey post-hoc is run only when the
   interaction or a main effect has p < 0.05. *)
C7_PostHocOnlyWhenSignificant ==
    (tw.ran /\ tw.tukey) => (Lt(tw.p_int, 5) \/ Lt(tw.p_a, 5) \/ Lt(tw.p_b, 5))

(* C7 as amended: the two-factor Tukey post-hoc is run exactly when the fit
   produced the ANOVA table, whatever the three p-values are. *)
C7_PostHocAfterEveryFit ==
    tw.ran => (tw.tukey <=> tw.anova)

C7_Witness ==
    /\ tw.ran /\ tw.outcome = "result" /\ tw.tukey
    /\ tw.p_int = 5 /\ tw.p_a = 5 /\ tw.p_b = 5
====
